---- MODULE Spec2Model ----
(***************************************************************************)
(* A model of the spf.rs codec (src/src/core.rs): the data model, the      *)
(* bitmap packer, add_character, the encoder to_vec_u8 and the two decode  *)
(* entry points from_vec_u8 and unchecked_from_vec_u8.                     *)
(*                                                                         *)
(* Bytes are integers 0..255, code points are integers, a Vec is a         *)
(* sequence (index i of the source is index i + 1 here), a [bool; 8] is a  *)
(* function on 0..7 so that it keeps the source's indices.                 *)
(***************************************************************************)
EXTENDS Integers, Sequences, FiniteSets, TLC

VARIABLES
    font,             \* the SimplePixelFont the caller builds
    pc,               \* "build", "encoded", "scan", "done"
    file,             \* the Vec<u8> handed to the decoder
    entry,            \* the decode entry point taken: "none", "checked", "unchecked"
    d,                \* the locals of unchecked_from_vec_u8's scan loop
    result,           \* what the decode entry point gave back
    overflow_checks,  \* the build: TRUE panics on integer overflow, FALSE wraps
    call              \* the add_character calls made: how many, and the last argument

vars == <<font, pc, file, entry, d, result, overflow_checks, call>>

-----------------------------------------------------------------------------
(* Bounds of the model.                                                    *)

\* the largest number of add_character calls made on one font
MaxChars == 2

-----------------------------------------------------------------------------
(* super::byte and super::MAGIC_BYTES: declared outside core.rs.           *)

MAGIC_BYTES == <<102, 115, 70>>

\* byte::Byte::from_u8: bits[i] is bit i of the byte, least significant first
from_u8(b) == [i \in 0..7 |-> (b \div (2 ^ i)) % 2 = 1]

\* byte::Byte::to_u8
to_u8(bits) ==
    LET v(i) == IF bits[i] THEN 2 ^ i ELSE 0
    IN v(0) + v(1) + v(2) + v(3) + v(4) + v(5) + v(6) + v(7)

\* the weighted sum of bytes[lo..hi], halving the range
RECURSIVE checksum_sum(_, _, _)
checksum_sum(bytes, lo, hi) ==
    IF lo > hi THEN 0
    ELSE IF lo = hi THEN (bytes[lo] + 1) * (2 * lo + 1)
    ELSE LET mid == (lo + hi) \div 2
         IN checksum_sum(bytes, lo, mid) + checksum_sum(bytes, mid + 1, hi)

\* byte::three_byte_checksum: a deterministic 24-bit digest, as three bytes
three_byte_checksum(bytes) ==
    LET c == checksum_sum(bytes, 1, Len(bytes)) % 16777216
    IN <<c \div 65536, (c \div 256) % 256, c % 256>>

-----------------------------------------------------------------------------
(* Rust primitives the code calls.                                         *)

\* bits[from..] : the slice of a [bool; 8] from index `from` on
Slice(bits, from) == [k \in 1..(8 - from) |-> bits[from + k - 1]]

\* !x on a u8: the bitwise complement
not_u8(b) == 255 - b

\* Vec::remove(i) (0-based), on a vector long enough
remove(v, i) == SubSeq(v, 1, i) \o SubSeq(v, i + 2, Len(v))

\* Vec::insert(i, x) (0-based), i <= len
insert(v, i, x) == SubSeq(v, 1, i) \o <<x>> \o SubSeq(v, i + 1, Len(v))

\* char::encode_utf8 into a zeroed [u8; 4]: the buffer afterwards
encode_utf8(c) ==
    IF c < 128 THEN <<c, 0, 0, 0>>
    ELSE IF c < 2048 THEN <<192 + (c \div 64), 128 + (c % 64), 0, 0>>
    ELSE IF c < 65536
         THEN <<224 + (c \div 4096), 128 + ((c \div 64) % 64), 128 + (c % 64), 0>>
    ELSE <<240 + (c \div 262144), 128 + ((c \div 4096) % 64),
           128 + ((c \div 64) % 64), 128 + (c % 64)>>

IsCont(b) == b >= 128 /\ b <= 191

\* the width std's UTF-8 validation gives a first byte (0: not a first byte)
utf8_char_width(b) ==
    IF b < 128 THEN 1
    ELSE IF b >= 194 /\ b <= 223 THEN 2
    ELSE IF b >= 224 /\ b <= 239 THEN 3
    ELSE IF b >= 240 /\ b <= 244 THEN 4
    ELSE 0

\* one well-formed UTF-8 sequence starts at index i of bytes
utf8_seq_ok(bytes, i) ==
    LET b == bytes[i]
        w == utf8_char_width(b)
    IN /\ w > 0
       /\ i + w - 1 <= Len(bytes)
       /\ w >= 2 => /\ IsCont(bytes[i + 1])
                    /\ b = 224 => bytes[i + 1] >= 160
                    /\ b = 237 => bytes[i + 1] <= 159
                    /\ b = 240 => bytes[i + 1] >= 144
                    /\ b = 244 => bytes[i + 1] <= 143
       /\ w >= 3 => IsCont(bytes[i + 2])
       /\ w >= 4 => IsCont(bytes[i + 3])

\* String::from_utf8(bytes).is_ok()
RECURSIVE from_utf8_ok(_, _)
from_utf8_ok(bytes, i) ==
    IF i > Len(bytes) THEN TRUE
    ELSE /\ utf8_seq_ok(bytes, i)
         /\ from_utf8_ok(bytes, i + utf8_char_width(bytes[i]))

\* String::from_utf8(bytes).unwrap().chars().next().unwrap(), on valid bytes
first_char(bytes) ==
    LET b == bytes[1]
        w == utf8_char_width(b)
    IN IF w = 1 THEN b
       ELSE IF w = 2 THEN (b - 192) * 64 + (bytes[2] - 128)
       ELSE IF w = 3
            THEN (b - 224) * 4096 + (bytes[2] - 128) * 64 + (bytes[3] - 128)
       ELSE (b - 240) * 262144 + (bytes[2] - 128) * 4096
              + (bytes[3] - 128) * 64 + (bytes[4] - 128)

-----------------------------------------------------------------------------
(* The data model.                                                         *)

FV0000 == "FV0000"
Height == "Height"
Width == "Width"

\* Bitmap::new
Bitmap_new(width, height, data) ==
    [width |-> width, height |-> height, data |-> data, inferred |-> FALSE]

\* Bitmap::inferred
Bitmap_inferred(data) ==
    [width |-> 0, height |-> 0, data |-> data, inferred |-> TRUE]

\* Bitmap::is_inferred
is_inferred(bitmap) == bitmap.inferred

\* Character::new
Character_new(utf8, size, bitmap) == [utf8 |-> utf8, size |-> size, bitmap |-> bitmap]

\* Character::inferred, on an inferred bitmap (it panics on any other)
Character_inferred(utf8, bitmap) == [utf8 |-> utf8, size |-> 0, bitmap |-> bitmap]

\* the empty HashMap<char, usize>
EmptyCache == [c \in {} |-> 0]

\* a slip in line 339: entry(c).or_insert(i), which keeps an older index
cache_insert_keep_first(cache, c, i) == cache @@ (c :> i)

\* HashMap::insert
cache_insert(cache, c, i) == (c :> i) @@ cache

\* SimplePixelFont::new
SimplePixelFont_new(format_version, alignment, size) ==
    [version |-> format_version, alignment |-> alignment, size |-> size,
     characters |-> <<>>, cache |-> EmptyCache]

-----------------------------------------------------------------------------
(* The bitmap packer.                                                      *)

\* Bitmap::segment_into_u8s: one byte per chunk of 8 pixels, the pixels of a
\* chunk at bits 0.. of its byte, the rest of the last byte false
segment_into_u8s(bitmap) ==
    LET n == Len(bitmap.data)
        byte(j) == [i \in 0..7 |->
                       IF 8 * j + i < n THEN bitmap.data[8 * j + i + 1] ELSE FALSE]
    IN [j \in 1..((n + 7) \div 8) |-> to_u8(byte(j - 1))]

-----------------------------------------------------------------------------
(* Insertion.                                                              *)

\* add_character divides by self.size: a size of 0 panics
add_character_panics(f, character) ==
    /\ is_inferred(character.bitmap)
    /\ f.alignment = Height
    /\ f.size = 0

\* a slip in line 154: the arguments of Bitmap::new in the other order
add_character_swapped(f, character) ==
    IF is_inferred(character.bitmap) /\ f.alignment = Height
    THEN LET width == ((Len(character.bitmap.data) % 65536) \div f.size) % 256
         IN [f EXCEPT !.characters =
                Append(@, Character_new(character.utf8, width,
                              Bitmap_new(f.size, width, character.bitmap.data)))]
    ELSE f

\* a slip in line 158: insert(0, ..) where push was meant
add_character_prepend(f, character) ==
    IF is_inferred(character.bitmap) /\ f.alignment = Height
    THEN LET width == ((Len(character.bitmap.data) % 65536) \div f.size) % 256
         IN [f EXCEPT !.characters =
                <<Character_new(character.utf8, width,
                      Bitmap_new(width, f.size, character.bitmap.data))>> \o @]
    ELSE f

\* a slip in line 151: the test of the alignment left out
add_character_any_alignment(f, character) ==
    IF is_inferred(character.bitmap)
    THEN LET width == IF f.size = 0 THEN 0
                      ELSE ((Len(character.bitmap.data) % 65536) \div f.size) % 256
         IN [f EXCEPT !.characters =
                Append(@, Character_new(character.utf8, width,
                              Bitmap_new(width, f.size, character.bitmap.data)))]
    ELSE f

\* a slip in lines 151-160: an else branch that pushes a concrete character
add_character_concrete_kept(f, character) ==
    IF ~is_inferred(character.bitmap)
    THEN [f EXCEPT !.characters = Append(@, character)]
    ELSE IF f.alignment = Height
    THEN LET width == ((Len(character.bitmap.data) % 65536) \div f.size) % 256
         IN [f EXCEPT !.characters =
                Append(@, Character_new(character.utf8, width,
                              Bitmap_new(width, f.size, character.bitmap.data)))]
    ELSE f

\* SimplePixelFont::add_character, when it does not panic
add_character(f, character) ==
    IF is_inferred(character.bitmap) /\ f.alignment = Height
    THEN LET width == ((Len(character.bitmap.data) % 65536) \div f.size) % 256
         IN [f EXCEPT !.characters =
                Append(@, Character_new(character.utf8, width,
                              Bitmap_new(width, f.size, character.bitmap.data)))]
    ELSE f

-----------------------------------------------------------------------------
(* The encoder.                                                            *)

\* to_vec_u8, lines 164-185: signature, flags byte, size byte
header_bytes(f) ==
    <<102, 115, 70,
      to_u8([i \in 0..7 |-> i = 0 /\ f.alignment = Width]),
      f.size>>

\* to_vec_u8, lines 188-197: what one character adds to the buffer
character_bytes(character) ==
    SelectSeq(encode_utf8(character.utf8), LAMBDA b : b # 0)
        \o <<character.size>>
        \o segment_into_u8s(character.bitmap)

\* to_vec_u8, the loop of line 187 over characters[i..]
RECURSIVE characters_bytes(_, _)
characters_bytes(characters, i) ==
    IF i > Len(characters) THEN <<>>
    ELSE character_bytes(characters[i]) \o characters_bytes(characters, i + 1)

\* a slip in lines 201-203: every checksum byte inserted at index 5
insert_checksum_all_at_5(buffer) ==
    LET checksum == three_byte_checksum(buffer)
    IN insert(insert(insert(buffer, 5, checksum[1]), 5, checksum[2]), 5, checksum[3])

\* to_vec_u8, lines 200-203: the checksum of the buffer, inserted at 5, 6, 7
insert_checksum(buffer) ==
    LET checksum == three_byte_checksum(buffer)
    IN insert(insert(insert(buffer, 5, checksum[1]), 6, checksum[2]), 7, checksum[3])

\* SimplePixelFont::to_vec_u8
to_vec_u8(f) == insert_checksum(header_bytes(f) \o characters_bytes(f.characters, 1))

-----------------------------------------------------------------------------
(* The decoder: the scan loop of unchecked_from_vec_u8.                    *)

Max(a, b) == IF a >= b THEN a ELSE b
Min(a, b) == IF a <= b THEN a ELSE b

\* the three buffer.remove(5) of lines 225-227 (and 211-213), on 8 bytes or more
strip_checksum(buffer) == remove(remove(remove(buffer, 5), 5), 5)

\* lines 228-250: the locals before the first iteration. pos is the place of
\* `iter` in the buffer (1-based); iter is None when pos > Len(buffer).
scan_init(buffer) ==
    [buffer |-> buffer,
     pos |-> 1,
     current_index |-> 0,
     format_version |-> FV0000,
     alignment |-> Height,
     size |-> 0,
     characters |-> <<>>,
     character_definition_stage |-> 0,
     current_character |-> [utf8 |-> 32, size |-> 0,
                            bitmap |-> [width |-> 0, height |-> 0,
                                        data |-> <<>>, inferred |-> FALSE]],
     cache |-> EmptyCache,
     status |-> "running",
     msg |-> ""]

\* a panic ends the call: no Font is returned
panicked(s, msg) == [s EXCEPT !.status = "panicked", !.msg = msg]

\* a slip in lines 346-347: the index moved on, the iterator not
advance_index_only(s) == [s EXCEPT !.current_index = @ + 1]

\* lines 346-347: iter = chunks.next(); current_index += 1
advance(s) == [s EXCEPT !.pos = @ + 1, !.current_index = @ + 1]

\* lines 253-256: the signature check on byte current_index
scan_magic(s) ==
    IF not_u8(s.buffer[s.pos]) = MAGIC_BYTES[s.current_index + 1]
    THEN panicked(s, "File is not signed")
    ELSE advance(s)

\* a slip in line 259: the alignment read from the last bit of the byte
scan_flags_last_bit(s) ==
    LET bits == from_u8(s.buffer[s.pos])
    IN advance([s EXCEPT
           !.alignment = IF bits[7] = FALSE THEN Height ELSE Width,
           !.format_version =
               IF Slice(bits, 3) = <<FALSE, FALSE, FALSE, FALSE>> THEN FV0000 ELSE @])

\* lines 257-265: the flags byte
scan_flags(s) ==
    LET bits == from_u8(s.buffer[s.pos])
    IN advance([s EXCEPT
           !.alignment = IF bits[0] = FALSE THEN Height ELSE Width,
           !.format_version =
               IF Slice(bits, 3) = <<FALSE, FALSE, FALSE, FALSE>> THEN FV0000 ELSE @])

\* lines 266-267: the size byte
scan_size(s) == advance([s EXCEPT !.size = s.buffer[s.pos]])

\* lines 273-293: how many more bytes stage 0 reads after the lead byte
continuation_count(utf81) ==
    IF Slice(utf81, 7) = <<FALSE>> THEN 0
    ELSE IF Slice(utf81, 5) = <<FALSE, TRUE, TRUE, TRUE>> THEN 1
    ELSE IF Slice(utf81, 4) = <<FALSE, TRUE, TRUE, TRUE>> THEN 2
    ELSE IF Slice(utf81, 3) = <<FALSE, TRUE, TRUE, TRUE, TRUE>> THEN 3
    ELSE 0

\* lines 273-293: whether any branch of stage 0 stores the lead byte
lead_byte_matched(utf81) ==
    \/ Slice(utf81, 7) = <<FALSE>>
    \/ Slice(utf81, 5) = <<FALSE, TRUE, TRUE, TRUE>>
    \/ Slice(utf81, 4) = <<FALSE, TRUE, TRUE, TRUE>>
    \/ Slice(utf81, 3) = <<FALSE, TRUE, TRUE, TRUE, TRUE>>

\* lines 269-300: stage 0, the code point
scan_stage0(s) ==
    LET utf81 == from_u8(s.buffer[s.pos])
        n == continuation_count(utf81)
        utf8_bytes == [k \in 1..4 |->
                          IF ~lead_byte_matched(utf81) THEN 0
                          ELSE IF k = 1 THEN to_u8(utf81)
                          ELSE IF k <= n + 1 THEN s.buffer[s.pos + k - 1]
                          ELSE 0]
    IN IF s.pos + n > Len(s.buffer)
       THEN panicked(s, "unwrap on None")
       ELSE IF ~from_utf8_ok(utf8_bytes, 1)
       THEN panicked(s, "unwrap on Err")
       ELSE advance([s EXCEPT
                !.pos = @ + n,
                !.current_character.utf8 = first_char(utf8_bytes),
                !.character_definition_stage = @ + 1])

\* lines 301-303: stage 1, the character's size
scan_stage1(s) ==
    advance([s EXCEPT !.current_character.size = s.buffer[s.pos],
                      !.character_definition_stage = @ + 1])

\* lines 313-317: ceil of the f32 quotient, cast to u8 (the cast saturates)
bytes_used_of(height, width) == Min(255, (height * width + 7) \div 8)

\* lines 319-320: height * width is a u8 product: it wraps when unchecked
remainder_of(height, width) ==
    bytes_used_of(height, width) * 8 - ((height * width) % 256)

\* lines 322-336: the bits kept of bytes_used bytes from buffer[pos] on: all 8
\* of every byte but the last, and of the last those with counter < 8 - remainder
kept_bits(buffer, pos, bytes_used, remainder) ==
    LET total == IF bytes_used = 0 THEN 0
                 ELSE 8 * (bytes_used - 1) + Max(0, Min(8, 8 - remainder))
    IN [k \in 1..total |-> from_u8(buffer[pos + ((k - 1) \div 8)])[(k - 1) % 8]]

\* lines 304-344: stage 2, the bitmap; then the character is pushed
scan_stage2(s, checks) ==
    LET height == IF s.alignment = Height THEN s.size ELSE s.current_character.size
        width == IF s.alignment = Height THEN s.current_character.size ELSE s.size
        bytes_used == bytes_used_of(height, width)
        remainder == remainder_of(height, width)
        last == s.pos + Max(bytes_used, 1) - 1
    IN IF checks /\ height * width > 255
       THEN panicked(s, "attempt to multiply with overflow")
       ELSE IF last > Len(s.buffer)
       THEN panicked(s, "unwrap on None")
       ELSE LET character ==
                    [s.current_character EXCEPT
                        !.bitmap.height = height,
                        !.bitmap.width = width,
                        !.bitmap.data = @ \o kept_bits(s.buffer, s.pos, bytes_used, remainder)]
            IN advance([s EXCEPT
                   !.pos = last,
                   !.cache = cache_insert(@, character.utf8, Len(s.characters)),
                   !.characters = Append(@, character),
                   !.current_character = [character EXCEPT !.bitmap.data = <<>>],
                   !.character_definition_stage = 0])

\* lines 251-348: one iteration of the scan loop, or the return of lines 350-357
\* when iter is None
scan_step(s, checks) ==
    IF s.pos > Len(s.buffer) THEN [s EXCEPT !.status = "returned"]
    ELSE IF s.current_index < 3 THEN scan_magic(s)
    ELSE IF s.current_index = 3 THEN scan_flags(s)
    ELSE IF s.current_index = 4 THEN scan_size(s)
    ELSE IF s.character_definition_stage = 0 THEN scan_stage0(s)
    ELSE IF s.character_definition_stage = 1 THEN scan_stage1(s)
    ELSE IF s.character_definition_stage = 2 THEN scan_stage2(s, checks)
    ELSE advance(s)

\* k iterations of the loop; a scan that has ended stays as it is
RECURSIVE scan_steps(_, _, _)
scan_steps(s, k, checks) ==
    IF k = 0 \/ s.status # "running" THEN s
    ELSE IF k = 1 THEN scan_step(s, checks)
    ELSE scan_steps(scan_steps(s, k \div 2, checks), k - (k \div 2), checks)

\* the loop run to its end: an iteration moves iter on by one byte at least
\* (line 346), so Len(buffer) iterations and the return end it
scan_run(s, checks) == scan_steps(s, Len(s.buffer) + 1, checks)

-----------------------------------------------------------------------------
(* The decode entry points, as the values they give back: Some(font) is    *)
(* [kind |-> "font"], None is [kind |-> "none"], a panic [kind |-> "panic"].*)

None == [kind |-> "none"]
Panic(msg) == [kind |-> "panic", msg |-> msg]
Some(f) == [kind |-> "font", font |-> f]

\* lines 350-357: the Font built from the locals of a finished scan
scan_result(s) ==
    IF s.status = "panicked" THEN Panic(s.msg)
    ELSE Some([version |-> s.format_version, alignment |-> s.alignment,
               size |-> s.size, characters |-> s.characters, cache |-> s.cache])

\* Vec::remove(i) (0-based) panics when i is not below the length
remove_out_of_bounds(v, i) == i >= Len(v)

\* lines 225-227 (and 211-213): one of the three buffer.remove(5) panics
remove_panics(buffer) ==
    \/ remove_out_of_bounds(buffer, 5)
    \/ remove_out_of_bounds(remove(buffer, 5), 5)
    \/ remove_out_of_bounds(remove(remove(buffer, 5), 5), 5)

\* SimplePixelFont::unchecked_from_vec_u8
unchecked_from_vec_u8(buffer, checks) ==
    IF remove_panics(buffer) THEN Panic("removal index out of bounds")
    ELSE scan_result(scan_run(scan_init(strip_checksum(buffer)), checks))

\* from_vec_u8, lines 209-216: the stored checksum equals the recomputed one
checksum_matches(buffer) ==
    LET file_checksum == <<buffer[6], buffer[7], buffer[8]>>
        local_buffer == strip_checksum(buffer)
    IN file_checksum = three_byte_checksum(local_buffer)

\* a slip in line 219: the stripped copy handed on instead of the original
checked_parse_input_stripped(buffer) == strip_checksum(buffer)

\* from_vec_u8, line 219: the buffer handed to unchecked_from_vec_u8
checked_parse_input(buffer) == buffer

\* a length test put before the removals, giving None for a short buffer
from_vec_u8_short_is_none(buffer, checks) ==
    IF remove_panics(buffer) THEN None
    ELSE IF ~checksum_matches(buffer) THEN None
    ELSE unchecked_from_vec_u8(checked_parse_input(buffer), checks)

\* SimplePixelFont::from_vec_u8
from_vec_u8(buffer, checks) ==
    IF remove_panics(buffer) THEN Panic("removal index out of bounds")
    ELSE IF ~checksum_matches(buffer) THEN None
    ELSE unchecked_from_vec_u8(checked_parse_input(buffer), checks)

-----------------------------------------------------------------------------
(* The inputs of the model.                                                *)

\* code points of each UTF-8 length: U+0000, 'o', U+00E9, U+20AC, U+1F60A
Chars == {0, 111, 233, 8364, 128522}

\* a pixel pattern of n pixels that no shift or reversal maps to itself
Pixels(n) == [k \in 1..n |-> (k % 3 = 1) \/ (k % 7 = 0)]

Sizes == {0, 1, 4}
Alignments == {Height, Width}

\* the characters handed to add_character: inferred ones of every code point
\* with 16 and 20 pixels, 'o' with 0, 9 and 256 pixels, and a concrete one
InputCharacters ==
    {Character_inferred(c, Bitmap_inferred(Pixels(n))) : c \in Chars, n \in {16, 20}}
    \cup {Character_inferred(111, Bitmap_inferred(Pixels(n))) : n \in {0, 9, 256}}
    \cup {Character_new(111, 4, Bitmap_new(4, 4, Pixels(16)))}

\* a file: five header bytes, three checksum bytes, the rest
FileOf(head, sum, rest) == head \o sum \o rest

\* a checksum that is not the file's
WrongSum(sum) == <<sum[1], sum[2], (sum[3] + 1) % 256>>

\* character records as they lie in a file of font size 4: 'o' of size 2
\* (1 bitmap byte), U+20AC of size 5 (3 bytes), U+1F60A of size 4 (2 bytes)
RecordStream ==
    <<111, 2, 165>> \o <<226, 130, 172, 5, 90, 195, 9>> \o <<240, 159, 152, 138, 4, 102, 153>>

\* U+00E9 of size 4, then 'o' of size 2
TwoByteStream == <<195, 169, 4, 73, 146>> \o <<111, 2, 165>>

Payloads ==
    {SubSeq(RecordStream, 1, n) : n \in 0..Len(RecordStream)}
    \cup {SubSeq(TwoByteStream, 1, n) : n \in {5, 8}}

Magics == {<<102, 115, 70>>, <<153, 115, 70>>, <<102, 140, 70>>,
           <<102, 115, 185>>, <<0, 0, 0>>, <<102, 115, 71>>}

\* the files given to the decoder: every record stream cut anywhere under a
\* well-formed header, every header variant over an empty and a one-record
\* payload, each with its own checksum and with a wrong one, and the files
\* too short to hold a checksum
Files ==
    LET bodies ==
            {<<102, 115, 70, fl, 4>> \o p : fl \in {0, 1}, p \in Payloads}
            \cup {m \o <<fl, sz>> \o p : m \in Magics, fl \in {0, 1, 8, 254, 255},
                                         sz \in {0, 4, 255},
                                         p \in {<<>>, <<111, 2, 165>>}}
        sums(b) == {three_byte_checksum(b), WrongSum(three_byte_checksum(b))}
    IN UNION {{FileOf(SubSeq(b, 1, 5), sum, SubSeq(b, 6, Len(b))) : sum \in sums(b)}
                 : b \in bodies}
       \cup {SubSeq(<<102, 115, 70, 0, 4, 0, 0>>, 1, n) : n \in 0..7}

-----------------------------------------------------------------------------
(* The state machine.                                                      *)

NoScan == [status |-> "idle"]
Pending == [kind |-> "pending"]
NoCall == [n |-> 0]

\* a caller constructs a font
Init ==
    /\ font \in {SimplePixelFont_new(FV0000, a, s) : a \in Alignments, s \in Sizes}
    /\ pc = "build"
    /\ file = <<>>
    /\ entry = "none"
    /\ d = NoScan
    /\ result = Pending
    /\ overflow_checks \in BOOLEAN
    /\ call = NoCall

\* font.add_character(character)
AddCharacter ==
    /\ pc = "build"
    /\ call.n < MaxChars
    /\ \E character \in InputCharacters :
          /\ call' = [n |-> call.n + 1, character |-> character]
          /\ IF add_character_panics(font, character)
             THEN /\ pc' = "done"
                  /\ result' = Panic("attempt to divide by zero")
                  /\ UNCHANGED font
             ELSE /\ font' = add_character(font, character)
                  /\ UNCHANGED <<pc, result>>
    /\ UNCHANGED <<file, entry, d, overflow_checks>>

\* font.to_vec_u8()
ToVecU8 ==
    /\ pc = "build"
    /\ file' = to_vec_u8(font)
    /\ pc' = "file"
    /\ UNCHANGED <<font, entry, d, result, overflow_checks, call>>

\* SimplePixelFont::from_vec_u8(file)
FromVecU8 ==
    /\ pc = "file"
    /\ entry' = "checked"
    /\ result' = from_vec_u8(file, overflow_checks)
    /\ pc' = "done"
    /\ UNCHANGED <<font, file, d, overflow_checks, call>>

\* SimplePixelFont::unchecked_from_vec_u8(file), up to the scan loop
UncheckedFromVecU8 ==
    /\ pc = "file"
    /\ entry' = "unchecked"
    /\ IF remove_panics(file)
       THEN /\ result' = Panic("removal index out of bounds")
            /\ pc' = "done"
            /\ UNCHANGED d
       ELSE /\ d' = scan_init(strip_checksum(file))
            /\ pc' = "scan"
            /\ UNCHANGED result
    /\ UNCHANGED <<font, file, overflow_checks, call>>

\* one iteration of the scan loop; the call returns or panics when it ends
ScanStep ==
    /\ pc = "scan"
    /\ d' = scan_step(d, overflow_checks)
    /\ IF d'.status = "running"
       THEN UNCHANGED <<pc, result>>
       ELSE /\ pc' = "done"
            /\ result' = scan_result(d')
    /\ UNCHANGED <<font, file, entry, overflow_checks, call>>

Next == AddCharacter \/ ToVecU8 \/ FromVecU8 \/ UncheckedFromVecU8 \/ ScanStep

\* build a font, encode it, decode the bytes
Spec == Init /\ [][Next]_vars

\* a file's bytes come from storage
FileInit ==
    /\ font = SimplePixelFont_new(FV0000, Height, 4)
    /\ pc = "file"
    /\ file \in Files
    /\ entry = "none"
    /\ d = NoScan
    /\ result = Pending
    /\ overflow_checks \in BOOLEAN
    /\ call = NoCall

FileNext == FromVecU8 \/ UncheckedFromVecU8 \/ ScanStep

\* decode the bytes of any file
FileSpec == FileInit /\ [][FileNext]_vars

\* the decoder is a synchronous loop: once entered, it keeps running
FileLive == FileSpec /\ WF_vars(ScanStep)

\* a caller constructs a font, or a file's bytes come from storage
AnyInit == Init \/ FileInit

\* both ways into the codec
AllSpec == AnyInit /\ [][Next]_vars

-----------------------------------------------------------------------------
(* What the claims speak of.                                               *)

\* ceil(n / 8)
CeilDiv8(n) == (n + 7) \div 8

\* the length of the standard UTF-8 encoding of a code point
Utf8Length(c) == IF c < 128 THEN 1 ELSE IF c < 2048 THEN 2 ELSE IF c < 65536 THEN 3 ELSE 4

\* the standard UTF-8 byte sequence of a code point
StdUtf8(c) == SubSeq(encode_utf8(c), 1, Utf8Length(c))

\* the number of bytes a lead byte announces: 0xxxxxxx 1, 110xxxxx 2,
\* 1110xxxx 3, 11110xxx 4 (0: not a lead byte)
LeadLength(b) ==
    IF b < 128 THEN 1
    ELSE IF b >= 192 /\ b < 224 THEN 2
    ELSE IF b >= 224 /\ b < 240 THEN 3
    ELSE IF b >= 240 /\ b < 248 THEN 4
    ELSE 0

\* the file was made by to_vec_u8 from font, and a decode entry point ran on it
Decoded == pc = "done" /\ entry # "none"

\* two characters agree in code point, size, bitmap dimensions and pixels
SameCharacter(a, b) ==
    /\ a.utf8 = b.utf8
    /\ a.size = b.size
    /\ a.bitmap.width = b.bitmap.width
    /\ a.bitmap.height = b.bitmap.height
    /\ a.bitmap.data = b.bitmap.data

\* two fonts agree in version, alignment, size and character sequence
SameFont(f, g) ==
    /\ f.version = g.version
    /\ f.alignment = g.alignment
    /\ f.size = g.size
    /\ Len(f.characters) = Len(g.characters)
    /\ \A i \in 1..Len(f.characters) : SameCharacter(f.characters[i], g.characters[i])

\* C1: a Height-aligned font built by add_character from inferred bitmaps
\* comes back from decode(encode(font)) with the same version, alignment,
\* size and characters (code point, size, bitmap dimensions, pixels), by
\* either decode entry point.
C1_RoundTrip ==
    (Decoded /\ font.alignment = Height)
        => /\ result.kind = "font"
           /\ SameFont(result.font, font)

\* a character whose pixel count is its true width * height, between 1 and
\* 255, and whose code point is not U+0000
PlainCharacter(ch) ==
    /\ ch.utf8 # 0
    /\ Len(ch.bitmap.data) = ch.bitmap.width * ch.bitmap.height
    /\ Len(ch.bitmap.data) \in 1..255

\* C2: code points of each of the four UTF-8 lengths decode to themselves
\* and the size and bitmap of every record are read from the right bytes:
\* a font of plain characters decodes to the same code points, sizes and
\* pixels.
C2_Utf8Boundary ==
    (Decoded /\ font.alignment = Height
        /\ \A i \in 1..Len(font.characters) : PlainCharacter(font.characters[i]))
        => /\ result.kind = "font"
           /\ Len(result.font.characters) = Len(font.characters)
           /\ \A i \in 1..Len(font.characters) :
                 SameCharacter(result.font.characters[i], font.characters[i])

\* C3: unchecked_from_vec_u8 on a file of 8 bytes or more panics "File is
\* not signed" at the first of bytes 0, 1, 2 that differs from 102, 115, 70
\* and returns no Font; a file that starts with 102, 115, 70 is never
\* rejected by that check.
C3_MagicRejection ==
    (pc = "done" /\ entry = "unchecked" /\ Len(file) >= 8)
        => LET bad == {i \in 1..3 : file[i] # <<102, 115, 70>>[i]}
           IN /\ bad # {} =>
                    /\ result = Panic("File is not signed")
                    /\ \A i \in bad : d.current_index + 1 <= i
              /\ bad = {} => result # Panic("File is not signed")

\* the file as it is without its bytes 5, 6, 7
WithoutChecksum(f) == SubSeq(f, 1, 5) \o SubSeq(f, 9, Len(f))

\* C4: bytes 5, 6, 7 of to_vec_u8(font) are the checksum of the output
\* without them, the header is bytes 0..4 and the character records start
\* at byte 8, and from_vec_u8 of that output never returns None.
C4_ChecksumPlacement ==
    (pc \in {"file", "scan"} \/ Decoded)
        => /\ Len(file) >= 8
           /\ <<file[6], file[7], file[8]>> = three_byte_checksum(WithoutChecksum(file))
           /\ SubSeq(file, 1, 5) = header_bytes(font)
           /\ SubSeq(file, 9, Len(file)) = characters_bytes(font.characters, 1)
           /\ (pc = "done" /\ entry = "checked") => result # None

\* C4's case: from_vec_u8 ran on the encoding of a font of two characters
\* and returned a Font
C4_Witness ==
    /\ pc = "done"
    /\ entry = "checked"
    /\ Len(font.characters) = 2
    /\ result.kind = "font"

\* C5: on a file of 8 bytes or more from_vec_u8 returns None exactly when
\* bytes 5..7 differ from the checksum of the rest, whatever the rest holds,
\* and otherwise gives what unchecked_from_vec_u8 gives for the same file.
C5_CheckedDecodeOrdering ==
    (pc = "done" /\ entry = "checked" /\ Len(file) >= 8)
        => LET stored == <<file[6], file[7], file[8]>>
               recomputed == three_byte_checksum(WithoutChecksum(file))
           IN /\ (result = None) <=> (stored # recomputed)
              /\ stored = recomputed =>
                    result = unchecked_from_vec_u8(file, overflow_checks)

\* C5's case: from_vec_u8 returned None for a file whose checksum is wrong
\* and whose structural parse would have panicked
C5_Witness ==
    /\ pc = "done"
    /\ entry = "checked"
    /\ Len(file) >= 8
    /\ result = None
    /\ unchecked_from_vec_u8(file, overflow_checks).kind = "panic"

\* where the records of the wire format end in payload[i..], for a font
\* size fsize: "boundary" at the end of a record, "mid" inside one,
\* "malformed" at a byte that starts no record
RECURSIVE RecordsEnd(_, _, _)
RecordsEnd(payload, i, fsize) ==
    IF i > Len(payload) THEN "boundary"
    ELSE LET n == LeadLength(payload[i])
         IN IF n = 0 THEN "malformed"
            ELSE IF i + n > Len(payload) THEN "mid"
            ELSE LET next == i + n + 1 + CeilDiv8(payload[i + n] * fsize)
                 IN IF next > Len(payload) + 1 THEN "mid"
                    ELSE RecordsEnd(payload, next, fsize)

\* C6: unchecked_from_vec_u8 panics on a file that ends inside a character
\* record, and returns a Font only for a file that ends on a record
\* boundary.
C6_TruncatedIsFatal ==
    (pc = "done" /\ entry = "unchecked" /\ Len(file) >= 8)
        => LET ends == RecordsEnd(SubSeq(file, 9, Len(file)), 1, file[5])
           IN /\ ends = "mid" => result.kind = "panic"
              /\ result.kind = "font" => ends = "boundary"

\* the font with every bitmap's data cut to its first width * height entries
Truncated(f) ==
    [f EXCEPT !.characters =
        [i \in 1..Len(f.characters) |->
            [f.characters[i] EXCEPT !.bitmap.data =
                SubSeq(@, 1, Min(Len(@), f.characters[i].bitmap.width
                                          * f.characters[i].bitmap.height))]]]

\* C7: to_vec_u8 uses only the first width * height entries of a bitmap's
\* data: the encoding is that of the font with the trailing entries cut,
\* and a record's bitmap takes ceil(width * height / 8) bytes.
C7_TrailingPixelsIgnored ==
    pc = "file"
        => /\ file = to_vec_u8(Truncated(font))
           /\ \A i \in 1..Len(font.characters) :
                 LET b == font.characters[i].bitmap
                 IN Len(b.data) > b.width * b.height
                       => Len(segment_into_u8s(b)) = CeilDiv8(b.width * b.height)

\* the scan loop at stage 2 on the first of bytes, for a bitmap of the given
\* height and width under Height alignment
AtStage2(bytes, height, width) ==
    [scan_init(bytes) EXCEPT !.current_index = 5,
                             !.size = height,
                             !.current_character.size = width,
                             !.character_definition_stage = 2]

\* C8: segment_into_u8s packs N pixels into ceil(N / 8) bytes, pixel k at
\* bit k mod 8 of byte k div 8, the unused bits of the last byte 0; and
\* decoder stage 2, with N = width * height, recovers the N pixels in order.
C8_BitPacking ==
    \A i \in 1..Len(font.characters) :
        LET b == font.characters[i].bitmap
            N == Len(b.data)
            bytes == segment_into_u8s(b)
            after == scan_stage2(AtStage2(bytes, b.height, b.width), overflow_checks)
        IN /\ Len(bytes) = CeilDiv8(N)
           /\ \A k \in 0..(8 * Len(bytes) - 1) :
                 from_u8(bytes[(k \div 8) + 1])[k % 8] = (k < N /\ b.data[k + 1])
           /\ (N > 0 /\ N = b.width * b.height)
                 => /\ after.status = "running"
                    /\ after.characters[1].bitmap.data = b.data

\* the bytes of file from index p on are the records of characters[i..] as
\* the wire format lays them out: UTF-8 bytes, size byte,
\* ceil(width * height / 8) packed bitmap bytes
RECURSIVE RecordsLaidOut(_, _, _, _)
RecordsLaidOut(f, p, characters, i) ==
    IF i > Len(characters) THEN p = Len(f) + 1
    ELSE LET ch == characters[i]
             n == Utf8Length(ch.utf8)
             nb == CeilDiv8(ch.bitmap.width * ch.bitmap.height)
         IN /\ p + n + nb <= Len(f)
            /\ SubSeq(f, p, p + n - 1) = StdUtf8(ch.utf8)
            /\ f[p + n] = ch.size
            /\ SubSeq(f, p + n + 1, p + n + nb) = segment_into_u8s(ch.bitmap)
            /\ RecordsLaidOut(f, p + n + 1 + nb, characters, i + 1)

\* C9: for a Height-aligned font whose characters were added with pixel
\* counts that are multiples of the font size, to_vec_u8 gives 102, 115,
\* 70, a flags byte with at most bit 0 set, the size, the checksum, and from
\* byte 8 on each character's UTF-8 bytes, size byte and
\* ceil(width * height / 8) bitmap bytes, and nothing more.
C9_WireLayout ==
    (pc = "file" /\ font.alignment = Height
        /\ \A i \in 1..Len(font.characters) :
              Len(font.characters[i].bitmap.data) % font.size = 0)
        => /\ Len(file) >= 8
           /\ SubSeq(file, 1, 3) = <<102, 115, 70>>
           /\ file[4] \in {0, 1}
           /\ file[5] = font.size
           /\ <<file[6], file[7], file[8]>> = three_byte_checksum(WithoutChecksum(file))
           /\ RecordsLaidOut(file, 9, font.characters, 1)

\* C10: to_vec_u8 emits for every character the standard UTF-8 bytes of its
\* code point, all of them and no other, right before its size byte.
C10_CodePointEmission ==
    \A i \in 1..Len(font.characters) :
        LET ch == font.characters[i]
            n == Utf8Length(ch.utf8)
            emitted == character_bytes(ch)
        IN /\ Len(emitted) = n + 1 + Len(segment_into_u8s(ch.bitmap))
           /\ SubSeq(emitted, 1, n) = StdUtf8(ch.utf8)
           /\ emitted[n + 1] = ch.size

-----------------------------------------------------------------------------
(* Insertion, the decoder's arithmetic and its header.                     *)

\* the bitmap of every character of f is concrete and has the font's size on
\* the aligned axis and the character's size on the other
Aligned(f) ==
    \A i \in 1..Len(f.characters) :
        LET ch == f.characters[i]
        IN /\ ~is_inferred(ch.bitmap)
           /\ IF f.alignment = Height
              THEN ch.bitmap.height = f.size /\ ch.bitmap.width = ch.size
              ELSE ch.bitmap.width = f.size /\ ch.bitmap.height = ch.size

\* C11: in every font built by new and add_character, and in every font
\* that unchecked_from_vec_u8 returns, each character's bitmap agrees with
\* the alignment: under Height its height is the font size and its width
\* the character size, under Width its width is the font size and its
\* height the character size; and no stored bitmap is inferred.
C11_AlignmentInvariant ==
    /\ Aligned(font)
    /\ (entry = "unchecked" /\ result.kind = "font") => Aligned(result.font)

\* a file with the Width flag decoded to a font with a character in it that
\* is not square
C11_Witness ==
    /\ entry = "unchecked" /\ result.kind = "font"
    /\ result.font.alignment = Width
    /\ \E i \in 1..Len(result.font.characters) :
          result.font.characters[i].size # result.font.size

InferredInputs == {ch \in InputCharacters : is_inferred(ch.bitmap)}
ConcreteInputs == {ch \in InputCharacters : ~is_inferred(ch.bitmap)}

\* add_character was called, and the call did not return
AddPanicked == entry = "none" /\ result.kind = "panic"

\* the last call of add_character was given an inferred bitmap
LastCallInferred == call.n >= 1 /\ is_inferred(call.character.bitmap)

\* g is f with one character of ch's code point and pixels after the others
AppendsOne(f, g, ch) ==
    LET n == Len(f.characters)
    IN /\ Len(g.characters) = n + 1
       /\ SubSeq(g.characters, 1, n) = f.characters
       /\ g.characters[n + 1].utf8 = ch.utf8
       /\ g.characters[n + 1].bitmap.data = ch.bitmap.data
       /\ g.version = f.version
       /\ g.alignment = f.alignment
       /\ g.size = f.size
       /\ g.cache = f.cache

\* what C12 says of the Height-aligned fonts in a set of sizes
AppendOnly(sizes) ==
    (font.alignment = Height /\ font.size \in sizes)
        => /\ ~AddPanicked
           /\ Len(font.characters) <= call.n
           /\ LastCallInferred
                 => /\ font.characters # <<>>
                    /\ font.characters[Len(font.characters)].utf8 = call.character.utf8
                    /\ font.characters[Len(font.characters)].bitmap.data
                          = call.character.bitmap.data
           /\ pc = "build"
                 => \A ch \in InferredInputs :
                       ~add_character_panics(font, ch)
                           => AppendsOne(font, add_character(font, ch), ch)

\* C12, as written: each add_character call on a Height-aligned font with
\* an inferred-bitmap character appends exactly one character at the end,
\* with the given code point and pixels, and leaves the characters before
\* it, their order, version, alignment, size and cache as they were; the
\* calls' characters are held in call order.
C12_AppendOnly == AppendOnly(0..255)

\* C12, amended: the same for a font size of 1 or more (a size of 0 makes
\* the call panic on its division, and nothing is appended).
C12_AppendOnlySized == AppendOnly(1..255)

\* two calls with inferred bitmaps made, two characters held in call order
C12_Witness ==
    /\ font.alignment = Height /\ font.size >= 1
    /\ call.n = 2 /\ LastCallInferred
    /\ Len(font.characters) = 2
    /\ font.characters[1].utf8 # font.characters[2].utf8
    /\ font.characters[2].utf8 = call.character.utf8

\* C13: add_character on a Width-aligned font is a silent no-op: no error,
\* the font exactly as it was, for every character given; so a Width font
\* built through add_character alone always has no characters.
C13_WidthNoOp ==
    font.alignment = Width
        => /\ ~AddPanicked
           /\ font = SimplePixelFont_new(FV0000, Width, font.size)
           /\ pc = "build"
                 => \A ch \in InputCharacters :
                       /\ ~add_character_panics(font, ch)
                       /\ add_character(font, ch) = font

\* a Width font after two calls, the last with an inferred bitmap
C13_Witness ==
    /\ font.alignment = Width
    /\ call.n = 2 /\ LastCallInferred
    /\ font.characters = <<>>

\* C14: on a Height-aligned font of size s in 1..255, add_character with an
\* inferred bitmap of n pixels stores a character whose size and whose
\* bitmap's width are both floor(n / s), the true pixel count divided,
\* with bitmap height s and the n pixels as given.
C14_DerivedWidth ==
    (font.alignment = Height /\ font.size \in 1..255 /\ LastCallInferred)
        => /\ ~AddPanicked
           /\ font.characters # <<>>
           /\ LET stored == font.characters[Len(font.characters)]
                  n == Len(call.character.bitmap.data)
              IN /\ stored.size = n \div font.size
                 /\ stored.bitmap.width = n \div font.size
                 /\ stored.bitmap.height = font.size
                 /\ stored.bitmap.data = call.character.bitmap.data

\* C19: add_character with a character whose bitmap is not inferred (one
\* made with Bitmap::new and Character::new) drops it silently, whatever
\* the alignment: no error, the font as it was, so no such character ever
\* enters a font through add_character.
C19_ConcreteDropped ==
    /\ (call.n = 1 /\ ~LastCallInferred)
          => /\ ~AddPanicked
             /\ font = SimplePixelFont_new(FV0000, font.alignment, font.size)
    /\ pc = "build"
          => \A ch \in ConcreteInputs :
                /\ ~add_character_panics(font, ch)
                /\ add_character(font, ch) = font

\* a Height font of size 4, still empty after a call with a concrete 4 x 4
\* character
C19_Witness ==
    /\ font.alignment = Height /\ font.size = 4
    /\ call.n = 1 /\ ~LastCallInferred
    /\ call.character.bitmap.width = 4
    /\ font.characters = <<>>

\* the scan loop is about to run stage 2 on a byte of the buffer
Stage2Next ==
    /\ pc = "scan" /\ d.status = "running"
    /\ d.pos <= Len(d.buffer)
    /\ d.current_index >= 5
    /\ d.character_definition_stage = 2

\* the bitmap's height and width at stage 2 (lines 305-311)
Stage2Height == IF d.alignment = Height THEN d.size ELSE d.current_character.size
Stage2Width == IF d.alignment = Height THEN d.current_character.size ELSE d.size

\* C15: for every font size and character size in 0..255, products above
\* 255 and a product of 0 included, stage 2 computes bytes_used =
\* ceil(w * h / 8) and the padding bytes_used * 8 - w * h over the true
\* product, consumes exactly bytes_used bytes of the buffer and appends
\* exactly w * h pixels, then goes back to stage 0.
C15_BitmapSizeArithmetic ==
    Stage2Next =>
        LET h == Stage2Height
            w == Stage2Width
            bytes == CeilDiv8(w * h)
            after == scan_stage2(d, overflow_checks)
        IN /\ bytes_used_of(h, w) = bytes
           /\ remainder_of(h, w) = bytes * 8 - w * h
           /\ d.pos + bytes - 1 <= Len(d.buffer)
                 => /\ after.status = "running"
                    /\ after.pos = d.pos + bytes
                    /\ Len(after.characters) = Len(d.characters) + 1
                    /\ Len(after.characters[Len(after.characters)].bitmap.data) = w * h
                    /\ after.character_definition_stage = 0

\* one iteration of the scan loop, or its end: what a step of the running
\* scan may do
ScanIteration ==
    IF d.pos > Len(d.buffer)
    THEN d'.status = "returned"
    ELSE \/ d'.status = "panicked"
         \/ /\ d'.status = "running"
            /\ d'.pos >= d.pos + 1
            /\ d'.pos <= Len(d.buffer) + 1
            /\ d'.character_definition_stage =
                  IF d.current_index < 5 THEN 0
                  ELSE (d.character_definition_stage + 1) % 3

\* C16: for every buffer of 8 bytes or more unchecked_from_vec_u8 comes to
\* an end, by returning or by a panic; every iteration of the scan loop
\* consumes one byte of the buffer at least; the stage counter is always
\* 0, 1 or 2 and goes 0, 1, 2, 0; and the scan returns exactly when the
\* buffer without its checksum is used up.
C16_DecoderTermination ==
    /\ [](pc = "scan" => d.character_definition_stage \in {0, 1, 2})
    /\ [][(pc = "scan" /\ d.status = "running") => ScanIteration]_vars
    /\ []((pc = "done" /\ entry = "unchecked" /\ Len(file) >= 8 /\ result.kind = "font")
            => d.pos = Len(d.buffer) + 1)
    /\ ((entry = "unchecked" /\ pc = "scan") ~> (pc = "done"))

\* a scan that went through the three stages twice or more and returned at
\* the end of the buffer
C16_Witness ==
    /\ pc = "done" /\ entry = "unchecked"
    /\ d.status = "returned"
    /\ d.pos = Len(d.buffer) + 1
    /\ Len(d.characters) >= 2
    /\ d.character_definition_stage = 0

\* the cache of f is the index of its characters: the code points held are
\* its keys, and each key maps to the 0-based place of its last occurrence
Indexed(f) ==
    LET cs == f.characters
    IN /\ DOMAIN f.cache = {cs[i].utf8 : i \in 1..Len(cs)}
       /\ \A c \in DOMAIN f.cache :
             /\ f.cache[c] \in 0..(Len(cs) - 1)
             /\ cs[f.cache[c] + 1].utf8 = c
             /\ \A i \in 1..Len(cs) : cs[i].utf8 = c => i - 1 <= f.cache[c]

\* C17: in every font unchecked_from_vec_u8 returns, the keys of cache are
\* exactly the code points that occur in characters, and each key c maps
\* to an index i below the number of characters with characters[i] of
\* code point c, the last such i when c occurs more than once.
C17_IndexRebuilt ==
    (entry # "none" /\ result.kind = "font") => Indexed(result.font)

\* a decoded font holding the same code point twice, indexed at the second
C17_Witness ==
    /\ entry = "unchecked" /\ result.kind = "font"
    /\ Len(result.font.characters) = 2
    /\ result.font.characters[1].utf8 = result.font.characters[2].utf8
    /\ result.font.cache[result.font.characters[1].utf8] = 1

\* the flags byte of an alignment: bit 0 for Width, every other bit clear
FlagsOf(alignment) == IF alignment = Width THEN 1 ELSE 0

\* C18: to_vec_u8 writes a flags byte with bit 0 set exactly for a Width
\* font and every other bit clear, and the size after it;
\* unchecked_from_vec_u8 takes Width exactly when bit 0 of byte 3 is set,
\* byte 4 as the size, and FV0000 whatever the flags byte; so the
\* alignment and size of an encoded font, a Width one too, come back
\* unchanged.
C18_HeaderFlags ==
    LET encoded == to_vec_u8(font)
    IN /\ encoded[4] = FlagsOf(font.alignment)
       /\ encoded[5] = font.size
       /\ pc = "file" /\ entry = "none" /\ call.n > 0 => file = encoded
       /\ (entry = "unchecked" /\ result.kind = "font")
             => /\ result.font.alignment = IF file[4] % 2 = 1 THEN Width ELSE Height
                /\ result.font.size = file[5]
                /\ result.font.version = FV0000
                /\ file = encoded
                      => /\ result.font.alignment = font.alignment
                         /\ result.font.size = font.size

\* a flags byte with every bit set, decoded to a Width font of version
\* FV0000
C18_Witness ==
    /\ entry = "unchecked" /\ result.kind = "font"
    /\ file[4] = 255
    /\ result.font.alignment = Width
    /\ result.font.version = FV0000

\* C20: for a buffer of fewer than 8 bytes, the empty one included, both
\* from_vec_u8 and unchecked_from_vec_u8 panic while removing the checksum
\* bytes, before any checksum comparison or signature check, so from_vec_u8
\* never gives None for it; for a buffer of exactly 8 bytes with the right
\* signature unchecked_from_vec_u8 returns a font with no characters.
C20_ShortBuffers ==
    (pc = "done" /\ entry # "none")
        => /\ Len(file) < 8
                 => /\ result = Panic("removal index out of bounds")
                    /\ d = NoScan
           /\ (Len(file) = 8 /\ entry = "unchecked" /\ SubSeq(file, 1, 3) = MAGIC_BYTES)
                 => /\ result.kind = "font"
                    /\ result.font.characters = <<>>

\* from_vec_u8 of 7 bytes that begin with another signature: the panic of
\* the removal, not None and not the signature's panic
C20_Witness ==
    /\ pc = "done" /\ entry = "checked"
    /\ Len(file) = 7
    /\ result = Panic("removal index out of bounds")

====
